---- MODULE Spec2Model ----
(***************************************************************************)
(* Model of snap-coin-utils' chain statistics (src/src/averages.rs) and of *)
(* the `Averages` command that drives it (src/src/main.rs).                *)
(*                                                                         *)
(* One action is the code that runs between two suspension points of the   *)
(* async functions: a provider call (get_height, get_block_by_height)      *)
(* together with the statements that consume its answer.  The provider is  *)
(* the environment: its chain may grow between two calls, a lookup may     *)
(* answer Ok(Some(block)), Ok(None) or Err.                                *)
(*                                                                         *)
(* f64 values are kept as exact fractions <<numerator, denominator>>;      *)
(* Option values as sequences of length 0 (None) or 1 (Some).              *)
(***************************************************************************)
EXTENDS Integers, Sequences, FiniteSets, TLC

VARIABLES
    chain_height,   \* provider: current chain height
    requests,       \* provider: the calls it has received, in order
    last_response,  \* provider: <<>> or <<kind, height>> of the last lookup answer
    pc,             \* position of the Averages command
    outcome,        \* "running", "ok", "err" or "panic"
    error,          \* the anyhow message of an "err" outcome
    block_count,    \* the `blocks` argument
    ba_height, ba_start, ba_h, timestamps,      \* calculate_block_averages locals
    block_time,                                 \* Option<BlockAverages>
    cs_height, cs_start, cs_h,                  \* calculate_chain_stats locals
    total_txs, total_io, total_size,
    miner_count, address_count,
    block_diffs, tx_diffs,
    first_ts, last_ts,
    window,         \* the blocks the aggregation loop has consumed, in order
    stats,          \* Option<ChainStats>
    main_height, block_numbers,                 \* main locals
    plot,           \* Option<what plot_difficulties wrote>
    top_n_result    \* Option<the Vec a lone top_n call returned>

provider_vars == <<chain_height, requests, last_response>>
ba_vars == <<ba_height, ba_start, ba_h, timestamps, block_time>>
cs_vars == <<cs_height, cs_start, cs_h, total_txs, total_io, total_size,
             miner_count, address_count, block_diffs, tx_diffs,
             first_ts, last_ts, window, stats>>
main_vars == <<main_height, block_numbers, plot>>
arg_vars == <<block_count, top_n_result>>
vars == <<provider_vars, pc, outcome, error, arg_vars, ba_vars, cs_vars, main_vars>>

---------------------------------------------------------------------------
(* Bounds of the model *)

MaxHeight == 3          \* the chain never grows beyond this height
TxMaxHeight == 2        \* the same, in the runs over full transactions
MaxBlockCount == 4      \* largest `blocks` argument tried
MaxTs == 1              \* block timestamps are 0..MaxTs
MaxTarget == 2          \* proof-of-work targets are 1..MaxTarget (MaxTarget = all ones)
NumKeys == 2            \* identities 1..NumKeys in transactions
MaxInputs == 1          \* inputs per transaction
MaxOutputs == 2         \* outputs per transaction
MaxTxs == 2             \* transactions per block
MaxWidth == 15          \* terminal widths 0..MaxWidth (and the default)
UsizeBits == 16         \* width of the machine word `usize` in the model
NumTableKeys == 11      \* identities 1..NumTableKeys in the ranker's tables
MaxIncrements == 13     \* increments applied to one ranker table
NumSeeds == 2           \* hash seeds 1..NumSeeds of a HashMap

(* Program constants *)

TOP_N == 10             \* top_n(.., 10)
DEFAULT_TERM_WIDTH == 80
MIN_BLOCKS == 2

---------------------------------------------------------------------------
(* Helpers *)

None == <<>>
Some(x) == <<x>>
IsSome(o) == Len(o) = 1
Unwrap(o) == o[1]

Min(a, b) == IF a < b THEN a ELSE b
Max(a, b) == IF a > b THEN a ELSE b

SeqsUpTo(S, n) == UNION {[1..k -> S] : k \in 0..n}

RECURSIVE SumSeq(_)
SumSeq(s) == IF s = <<>> THEN 0 ELSE s[1] + SumSeq(Tail(s))

Range(lo, hi) == [i \in 1..Max(hi - lo, 0) |-> lo + i - 1]     \* lo..hi as Rust's lo..hi

Pow2(n) == 2 ^ n
USIZE_MOD == Pow2(UsizeBits)

---------------------------------------------------------------------------
(* Data: identities, transactions, blocks *)

Keys == 1..NumKeys
Timestamps == 0..MaxTs
Targets == 1..MaxTarget

\* A TransactionInput is its output_owner, a TransactionOutput its receiver.
TxSet(keys, maxIn, maxOut) ==
    [inputs : SeqsUpTo(keys, maxIn), outputs : SeqsUpTo(keys, maxOut)]

BlockSet(tss, txseqs, targets) ==
    [timestamp : tss, transactions : txseqs,
     meta : [block_pow_difficulty : targets, tx_pow_difficulty : targets]]

---------------------------------------------------------------------------
(* main.rs: normalize_difficulty.  max_f / target_f, the all-ones target   *)
(* being MaxTarget in the model.                                           *)

normalize_difficulty(target) == <<MaxTarget, target>>

\* f64 arithmetic on fractions with positive denominators
RatLess(a, b) == a[1] * b[2] < b[1] * a[2]
RatAdd(a, b) == <<a[1] * b[2] + b[1] * a[2], a[2] * b[2]>>
RatMax(a, b) == IF RatLess(a, b) THEN b ELSE a

RECURSIVE RatSum(_)
RatSum(s) == IF s = <<>> THEN <<0, 1>> ELSE RatAdd(s[1], RatSum(Tail(s)))

RECURSIVE RatFoldMax(_, _)
RatFoldMax(s, acc) == IF s = <<>> THEN acc ELSE RatFoldMax(Tail(s), RatMax(acc, s[1]))

---------------------------------------------------------------------------
(* averages.rs: the frequency tables (HashMap<[u8; 32], usize>) and top_n  *)

EmptyMap == <<>>

\* *map.entry(key).or_default() += 1
increment(map, key) ==
    IF key \in DOMAIN map THEN [map EXCEPT ![key] = @ + 1] ELSE map @@ (key :> 1)

RECURSIVE increment_all(_, _)
increment_all(map, keys) ==
    IF keys = <<>> THEN map ELSE increment_all(increment(map, keys[1]), Tail(keys))

\* A HashMap iterates in the order of its seeded hash; the seed differs from
\* map to map and from run to run.
Seeds == 1..NumSeeds
Hash(seed, key) == (seed * key) % (NumSeeds + 1)
HashBefore(seed, a, b) ==
    \/ Hash(seed, a) < Hash(seed, b)
    \/ Hash(seed, a) = Hash(seed, b) /\ a < b

\* map.into_iter().collect()
into_iter(map, seed) ==
    LET ks == DOMAIN map
        rank(k) == 1 + Cardinality({j \in ks : HashBefore(seed, j, k)})
        at(i) == CHOOSE k \in ks : rank(k) = i
    IN  [i \in 1..Cardinality(ks) |-> <<at(i), map[at(i)]>>]

\* One insertion of a stable sort by |a, b| b.1.cmp(&a.1): x goes behind every
\* entry whose count is not smaller.
InsertDesc(sorted, x) ==
    LET idx == Cardinality({i \in 1..Len(sorted) : sorted[i][2] >= x[2]})
    IN  SubSeq(sorted, 1, idx) \o <<x>> \o SubSeq(sorted, idx + 1, Len(sorted))

RECURSIVE sort_by_count_desc(_, _)
sort_by_count_desc(v, sorted) ==
    IF v = <<>> THEN sorted ELSE sort_by_count_desc(Tail(v), InsertDesc(sorted, v[1]))

truncate(v, n) == SubSeq(v, 1, Min(n, Len(v)))

top_n_truncating_first(map, n, seed) ==
    sort_by_count_desc(truncate(into_iter(map, seed), n), <<>>)

top_n(map, n, seed) == truncate(sort_by_count_desc(into_iter(map, seed), <<>>), n)

---------------------------------------------------------------------------
(* averages.rs: the statistics of calculate_block_averages (lines 122-145) *)

InsertAsc(sorted, x) ==
    LET idx == Cardinality({i \in 1..Len(sorted) : sorted[i] <= x})
    IN  SubSeq(sorted, 1, idx) \o <<x>> \o SubSeq(sorted, idx + 1, Len(sorted))

RECURSIVE sort_asc(_, _)
sort_asc(v, sorted) ==
    IF v = <<>> THEN sorted ELSE sort_asc(Tail(v), InsertAsc(sorted, v[1]))

\* timestamps.windows(2).map(|w| w[1] - w[0])
deltas_of(ts) == [i \in 1..(Len(ts) - 1) |-> ts[i + 1] - ts[i]]

\* std_dev is the square root of `variance`, which is what the model keeps.
BlockAverages(ts) ==
    LET deltas == deltas_of(ts)
        count == Len(deltas)
        sum == SumSeq(deltas)
        sq == [i \in 1..count |-> (deltas[i] * count - sum) * (deltas[i] * count - sum)]
        sorted == sort_asc(deltas, <<>>)
        mid == count \div 2
    IN  [average |-> <<sum, count>>,
         variance |-> <<SumSeq(sq), count * count * count>>,
         median |-> IF count % 2 = 0
                    THEN <<sorted[mid] + sorted[mid + 1], 2>>
                    ELSE <<sorted[mid + 1], 1>>,
         min |-> sorted[1],
         max |-> sorted[count],
         _sample_size |-> count]

---------------------------------------------------------------------------
(* averages.rs: the body of the aggregation loop (lines 173-194)           *)

saturating_sub(a, b) == IF a >= b THEN a - b ELSE 0

is_coinbase(tx) == Len(tx.inputs) = 0

\* block.transactions.iter().filter(|tx| tx.inputs.len() == 0).collect().first()
first_coinbase(txs) ==
    LET zero == SelectSeq(txs, is_coinbase)
    IN  IF zero = <<>> THEN None ELSE Some(zero[1])

\* coinbase.outputs[1]: Rust indexes from 0, so this is the second output.
MINER_OUTPUT == 2
miner_output_exists(coinbase) == Len(coinbase.outputs) >= MINER_OUTPUT
miner_of_first_output(coinbase) == coinbase.outputs[1]
miner_of(coinbase) == coinbase.outputs[MINER_OUTPUT]

\* True when the loop body runs into the index panic of line 188.
body_panics(block) ==
    LET cb == first_coinbase(block.transactions)
    IN  IsSome(cb) /\ ~miner_output_exists(Unwrap(cb))

RECURSIVE io_of(_)
io_of(txs) ==
    IF txs = <<>> THEN 0
    ELSE Len(txs[1].inputs) + Len(txs[1].outputs) + io_of(Tail(txs))

RECURSIVE count_addresses(_, _)
count_addresses(map, txs) ==
    IF txs = <<>> THEN map
    ELSE count_addresses(increment_all(map, txs[1].inputs \o txs[1].outputs), Tail(txs))

credit_miner(map, block) ==
    LET cb == first_coinbase(block.transactions)
    IN  IF IsSome(cb) THEN increment(map, miner_of(Unwrap(cb))) ELSE map

\* encode_to_vec(&block, ..).len(): the wire layout belongs to the snap_coin
\* crate; the model counts one unit per scalar and per length prefix.
encoded_len(block) ==
    4 + Len(block.transactions) + io_of(block.transactions)
      + 2 * Len(block.transactions)

\* let start = height.saturating_sub(block_count)
window_start_off_by_one(height, count) == saturating_sub(height, count + 1)
window_start(height, count) == saturating_sub(height, count)

\* if block_count < 2
too_few_blocks_below_one(count) == count < 1
too_few_blocks(count) == count < MIN_BLOCKS

\* for h in start..height: the height of the next turn
next_height_skipping(h) == h + 2
next_height(h) == h + 1

\* the divisor of the three per-block averages (line 197)
blocks_f == block_count

ChainStats ==
    [block_time |-> Unwrap(block_time),
     avg_txs_per_block |-> <<total_txs, blocks_f>>,
     avg_io_per_block |-> <<total_io, blocks_f>>,
     avg_block_size_bytes |-> <<total_size, blocks_f>>,
     tps |-> <<total_txs, Unwrap(last_ts) - Unwrap(first_ts)>>,
     avg_block_difficulty |->
        <<RatSum(block_diffs)[1], RatSum(block_diffs)[2] * Len(block_diffs)>>,
     avg_tx_difficulty |->
        <<RatSum(tx_diffs)[1], RatSum(tx_diffs)[2] * Len(tx_diffs)>>,
     top_miners |-> <<>>,
     top_addresses |-> <<>>,
     block_difficulty_series |-> block_diffs,
     tx_difficulty_series |-> tx_diffs]

---------------------------------------------------------------------------
(* averages.rs: plot_difficulties (lines 47-95)                            *)

\* term_size::dimensions(): None, or Some((w, _))
TermSizes == {None} \cup {Some(w) : w \in 0..MaxWidth}

term_width_of(term) == IF IsSome(term) THEN Unwrap(term) ELSE DEFAULT_TERM_WIDTH

RESERVED_COLUMNS == 13      \* 7 + 3 + 3

\* term_width - 7 - 3 - 3 on usize overflows below 13 columns.
width_overflows(term_width) == term_width < RESERVED_COLUMNS

\* (term_width - 7 - 3 - 3) / 2 where the subtraction does not trap: the
\* difference wraps modulo the word size.
bar_max_width_of(term_width) ==
    ((term_width - RESERVED_COLUMNS) % USIZE_MOD) \div 2

\* scale = ((value / max) * width).min(width); full = floor(scale);
\* partial = round((scale - full) * 8), halves rounded away from zero.
bar_of(value, max, width) ==
    LET num == value[1] * max[2] * width
        den == value[2] * max[1]
        capped == IF num > den * width THEN <<width, 1>> ELSE <<num, den>>
        full == capped[1] \div capped[2]
        rem == capped[1] % capped[2]
    IN  <<full, (16 * rem + capped[2]) \div (2 * capped[2])>>

plot_rows(blocks, block_diff, tx_diff, width) ==
    LET max_block == RatFoldMax(block_diff, <<0, 1>>)
        max_tx == RatFoldMax(tx_diff, <<0, 1>>)
    IN  [i \in 1..Len(blocks) |->
            <<blocks[i], bar_of(block_diff[i], max_block, width),
              bar_of(tx_diff[i], max_tx, width)>>]

\* The outcome of one call: "panic" where the build traps the overflow
\* (overflow checks on), the printed table otherwise.
plot_difficulties(blocks, block_diff, tx_diff, term, overflow_checks) ==
    LET w == term_width_of(term)
    IN  IF width_overflows(w) /\ overflow_checks
        THEN [panicked |-> TRUE, term_width |-> w, bar_max_width |-> 0, rows |-> <<>>]
        ELSE [panicked |-> FALSE, term_width |-> w,
              bar_max_width |-> bar_max_width_of(w),
              rows |-> plot_rows(blocks, block_diff, tx_diff, bar_max_width_of(w))]

---------------------------------------------------------------------------
(* The state machine *)

BlockCounts == 0..MaxBlockCount

InitOver(heights, counts, entry) ==
    /\ chain_height \in heights
    /\ block_count \in counts
    /\ requests = <<>>
    /\ last_response = <<>>
    /\ pc = entry
    /\ outcome = "running"
    /\ error = ""
    /\ ba_height = 0 /\ ba_start = 0 /\ ba_h = 0
    /\ timestamps = <<>>
    /\ block_time = None
    /\ cs_height = 0 /\ cs_start = 0 /\ cs_h = 0
    /\ total_txs = 0 /\ total_io = 0 /\ total_size = 0
    /\ miner_count = EmptyMap /\ address_count = EmptyMap
    /\ block_diffs = <<>> /\ tx_diffs = <<>>
    /\ first_ts = None /\ last_ts = None
    /\ window = <<>>
    /\ stats = None
    /\ main_height = 0
    /\ block_numbers = <<>>
    /\ plot = None
    /\ top_n_result = None

\* `?` or `return Err(..)`: the command ends with the error, nothing is returned.
Fail(msg) ==
    /\ pc' = "done"
    /\ outcome' = "err"
    /\ error' = msg

Panic ==
    /\ pc' = "done"
    /\ outcome' = "panic"
    /\ error' = ""

Goto(label) ==
    /\ pc' = label
    /\ UNCHANGED <<outcome, error>>

Ask(op) == requests' = Append(requests, op)

\* The provider's chain gains a block while the command runs.
Grow(max_height) ==
    /\ pc # "done"
    /\ chain_height < max_height
    /\ chain_height' = chain_height + 1
    /\ UNCHANGED <<requests, last_response, pc, outcome, error, arg_vars,
                   ba_vars, cs_vars, main_vars>>

\* calculate_block_averages, lines 102-108
BA_Start ==
    /\ pc = "calculate_block_averages"
    /\ IF too_few_blocks(block_count)
       THEN /\ Fail("At least 2 blocks required")
            /\ UNCHANGED <<provider_vars, ba_vars>>
       ELSE /\ Ask(<<"get_height">>)
            /\ UNCHANGED <<chain_height, last_response>>
            /\ \/ /\ Fail("get_height failed")
                  /\ UNCHANGED ba_vars
               \/ /\ Goto("ba_loop")
                  /\ ba_height' = chain_height
                  /\ ba_start' = window_start(chain_height, block_count)
                  /\ ba_h' = window_start(chain_height, block_count)
                  /\ timestamps' = <<>>
                  /\ UNCHANGED block_time
    /\ UNCHANGED <<arg_vars, cs_vars, main_vars>>

\* calculate_block_averages, lines 110-116: one turn of the loop
BA_Fetch(blocks) ==
    /\ pc = "ba_loop"
    /\ ba_h < ba_height
    /\ Ask(<<"get_block_by_height", ba_h>>)
    /\ \/ /\ last_response' = <<"err", ba_h>>
          /\ Fail("get_block_by_height failed")
          /\ UNCHANGED <<ba_h, timestamps>>
       \/ /\ last_response' = <<"none", ba_h>>
          /\ Fail("Block missing")
          /\ UNCHANGED <<ba_h, timestamps>>
       \/ \E block \in blocks :
            /\ last_response' = <<"some", ba_h>>
            /\ timestamps' = Append(timestamps, block.timestamp)
            /\ ba_h' = next_height(ba_h)
            /\ Goto("ba_loop")
    /\ UNCHANGED <<chain_height, arg_vars, ba_height, ba_start, block_time,
                   cs_vars, main_vars>>

\* calculate_block_averages, lines 118-145, and the return into
\* calculate_chain_stats (line 150)
BA_Finish ==
    /\ pc = "ba_loop"
    /\ ba_h >= ba_height
    /\ IF Len(timestamps) < 2
       THEN /\ Fail("Not enough blocks")
            /\ UNCHANGED block_time
       ELSE /\ block_time' = Some(BlockAverages(timestamps))
            /\ Goto("calculate_chain_stats")
    /\ UNCHANGED <<provider_vars, arg_vars, ba_height, ba_start, ba_h,
                   timestamps, cs_vars, main_vars>>

\* calculate_chain_stats, lines 152-166
CS_Start ==
    /\ pc = "calculate_chain_stats"
    /\ Ask(<<"get_height">>)
    /\ \/ /\ Fail("get_height failed")
          /\ UNCHANGED <<cs_height, cs_start, cs_h>>
       \/ /\ Goto("cs_loop")
          /\ cs_height' = chain_height
          /\ cs_start' = window_start(chain_height, block_count)
          /\ cs_h' = window_start(chain_height, block_count)
    /\ UNCHANGED <<chain_height, last_response, arg_vars, ba_vars,
                   total_txs, total_io, total_size, miner_count, address_count,
                   block_diffs, tx_diffs, first_ts, last_ts, window, stats,
                   main_vars>>

\* lines 173-194 for a block the provider returned
CS_Body(block) ==
    IF body_panics(block)
    THEN /\ Panic
         /\ UNCHANGED <<cs_h, total_txs, total_io, total_size, miner_count,
                        address_count, block_diffs, tx_diffs, first_ts, last_ts,
                        window>>
    ELSE \/ /\ Fail("encode_to_vec failed")
            /\ UNCHANGED <<cs_h, total_txs, total_io, total_size, miner_count,
                           address_count, block_diffs, tx_diffs, first_ts,
                           last_ts, window>>
         \/ /\ Goto("cs_loop")
            /\ first_ts' = IF IsSome(first_ts) THEN first_ts ELSE Some(block.timestamp)
            /\ last_ts' = Some(block.timestamp)
            /\ total_txs' = total_txs + Len(block.transactions)
            /\ total_io' = total_io + io_of(block.transactions)
            /\ address_count' = count_addresses(address_count, block.transactions)
            /\ miner_count' = credit_miner(miner_count, block)
            /\ total_size' = total_size + encoded_len(block)
            /\ block_diffs' = Append(block_diffs,
                                 normalize_difficulty(block.meta.block_pow_difficulty))
            /\ tx_diffs' = Append(tx_diffs,
                                 normalize_difficulty(block.meta.tx_pow_difficulty))
            /\ window' = Append(window, block)
            /\ cs_h' = next_height(cs_h)

\* line 172, .ok_or_else(|| anyhow!("Missing block {}", h))?, when the lookup
\* answers Ok(None)
CS_Missing_Skipped ==
    /\ last_response' = <<"none", cs_h>>
    /\ Goto("cs_loop")
    /\ cs_h' = next_height(cs_h)
    /\ UNCHANGED <<total_txs, total_io, total_size, miner_count,
                   address_count, block_diffs, tx_diffs, first_ts, last_ts,
                   window>>

CS_Missing ==
    /\ last_response' = <<"none", cs_h>>
    /\ Fail("Missing block")
    /\ UNCHANGED <<cs_h, total_txs, total_io, total_size, miner_count,
                   address_count, block_diffs, tx_diffs, first_ts, last_ts,
                   window>>

\* calculate_chain_stats, lines 168-195: one turn of the loop
CS_Fetch(blocks) ==
    /\ pc = "cs_loop"
    /\ cs_h < cs_height
    /\ Ask(<<"get_block_by_height", cs_h>>)
    /\ \/ /\ last_response' = <<"err", cs_h>>
          /\ Fail("get_block_by_height failed")
          /\ UNCHANGED <<cs_h, total_txs, total_io, total_size, miner_count,
                         address_count, block_diffs, tx_diffs, first_ts, last_ts,
                         window>>
       \/ CS_Missing
       \/ \E block \in blocks :
            /\ last_response' = <<"some", cs_h>>
            /\ CS_Body(block)
    /\ UNCHANGED <<chain_height, arg_vars, ba_vars, cs_height, cs_start,
                   stats, main_vars>>

\* calculate_chain_stats, lines 197-212, and the return into main (line 166)
CS_Finish ==
    /\ pc = "cs_loop"
    /\ cs_h >= cs_height
    /\ IF ~IsSome(last_ts)
       THEN /\ Panic                         \* last_ts.unwrap() on None
            /\ UNCHANGED stats
       ELSE /\ \E miner_seed \in Seeds, address_seed \in Seeds :
                 stats' = Some([ChainStats EXCEPT
                     !.top_miners = top_n(miner_count, TOP_N, miner_seed),
                     !.top_addresses = top_n(address_count, TOP_N, address_seed)])
            /\ Goto("main")
    /\ UNCHANGED <<provider_vars, arg_vars, ba_vars, cs_height, cs_start, cs_h,
                   total_txs, total_io, total_size, miner_count, address_count,
                   block_diffs, tx_diffs, first_ts, last_ts, window, main_vars>>

\* calculate_chain_stats has returned: its accumulators were moved into the
\* ChainStats value or dropped with the frame.
DropFrame ==
    /\ total_txs' = 0 /\ total_io' = 0 /\ total_size' = 0
    /\ miner_count' = EmptyMap /\ address_count' = EmptyMap
    /\ block_diffs' = <<>> /\ tx_diffs' = <<>>
    /\ first_ts' = None /\ last_ts' = None
    /\ window' = <<>>

\* main, lines 167-171
Main_Height ==
    /\ pc = "main"
    /\ Ask(<<"get_height">>)
    /\ LET series_len == Len(Unwrap(stats).tx_difficulty_series)
       IN  \/ /\ Fail("get_height failed")
              /\ UNCHANGED <<main_height, block_numbers>>
           \/ /\ chain_height >= series_len
              /\ Goto("plot")
              /\ main_height' = chain_height
              /\ block_numbers' = Range(chain_height - series_len, chain_height)
           \/ /\ chain_height < series_len      \* height - len on usize
              /\ main_height' = chain_height
              /\ \/ /\ Panic
                    /\ UNCHANGED block_numbers
                 \/ /\ Goto("plot")
                    /\ block_numbers' = <<>>
    /\ DropFrame
    /\ UNCHANGED <<chain_height, last_response, arg_vars, ba_vars,
                   cs_height, cs_start, cs_h, stats, plot>>

\* main, lines 172-217: the chart and the printed report
Main_Plot ==
    /\ pc = "plot"
    /\ \E term \in TermSizes, overflow_checks \in BOOLEAN :
         LET out == plot_difficulties(block_numbers,
                        Unwrap(stats).block_difficulty_series,
                        Unwrap(stats).tx_difficulty_series, term, overflow_checks)
         IN  /\ plot' = Some(out)
             /\ pc' = "done"
             /\ outcome' = IF out.panicked THEN "panic" ELSE "ok"
             /\ error' = ""
    /\ UNCHANGED <<provider_vars, arg_vars, ba_vars, cs_vars, main_height,
                   block_numbers>>

Steps(blocks, max_height) ==
    \/ Grow(max_height)
    \/ BA_Start
    \/ BA_Fetch(blocks)
    \/ BA_Finish
    \/ CS_Start
    \/ CS_Fetch(blocks)
    \/ CS_Finish
    \/ Main_Height
    \/ Main_Plot

\* The runs over the chain height and the window: blocks of at most one
\* transaction without outputs, every timestamp and one target.
ChainBlocks ==
    BlockSet(Timestamps, SeqsUpTo(TxSet({1}, 1, 0), 1), {MaxTarget})

Init == InitOver(0..MaxHeight, BlockCounts, "calculate_block_averages")
Next == Steps(ChainBlocks, MaxHeight)
Spec == Init /\ [][Next]_vars

\* The runs over the transactions: every block of up to MaxTxs transactions
\* over the identities Keys, one timestamp and one target.
TxBlocks ==
    BlockSet({0}, SeqsUpTo(TxSet(Keys, MaxInputs, MaxOutputs), MaxTxs), {MaxTarget})

InitTx == InitOver(1..TxMaxHeight, BlockCounts, "calculate_block_averages")
NextTx == Steps(TxBlocks, TxMaxHeight)
SpecTx == InitTx /\ [][NextTx]_vars


---------------------------------------------------------------------------
(* The frequency ranker on its own: a table is built by increments (lines  *)
(* 180, 183, 189) and ranked by top_n(table, 10) (lines 208-209).          *)

TableKeys == 1..NumTableKeys

RECURSIVE map_total(_)
map_total(map) ==
    IF DOMAIN map = {} THEN 0
    ELSE LET k == CHOOSE k \in DOMAIN map : TRUE
         IN  map[k] + map_total([j \in DOMAIN map \ {k} |-> map[j]])

\* Identities are numbered in the order of their first appearance.
Ranker_Increment ==
    /\ pc = "ranker"
    /\ map_total(address_count) < MaxIncrements
    /\ \E key \in TableKeys :
         /\ key <= Cardinality(DOMAIN address_count) + 1
         /\ address_count' = increment(address_count, key)
    /\ UNCHANGED <<provider_vars, pc, outcome, error, arg_vars, ba_vars,
                   cs_height, cs_start, cs_h, total_txs, total_io, total_size,
                   miner_count, block_diffs, tx_diffs, first_ts, last_ts, window,
                   stats, main_vars>>

Ranker_TopN ==
    /\ pc = "ranker"
    /\ \E seed \in Seeds : top_n_result' = Some(top_n(address_count, TOP_N, seed))
    /\ pc' = "done"
    /\ outcome' = "ok"
    /\ UNCHANGED <<provider_vars, error, block_count, ba_vars, cs_vars, main_vars>>

InitRanker == InitOver({0}, {0}, "ranker")
NextRanker == Ranker_Increment \/ Ranker_TopN
SpecRanker == InitRanker /\ [][NextRanker]_vars


---------------------------------------------------------------------------
(* Properties *)

Returned == IsSome(stats)
Result == Unwrap(stats)

\* C1 as stated: a successful calculate_chain_stats(client, N) returns two
\* difficulty series of exactly N entries and a block-time sample of exactly
\* N - 1 deltas, whatever the provider's height.
C1_AsStated ==
    Returned =>
        /\ Len(Result.block_difficulty_series) = block_count
        /\ Len(Result.tx_difficulty_series) = block_count
        /\ Result.block_time._sample_size = block_count - 1

\* C1, amended: a successful calculate_chain_stats(client, N) returns two
\* difficulty series of min(N, height) entries each, height being the value
\* get_height gave calculate_chain_stats, and a block-time sample of
\* min(N, height') - 1 deltas, height' being the value get_height gave
\* calculate_block_averages; these are N and N - 1 when the chain holds at
\* least N blocks.
C1_WindowLengths ==
    Returned =>
        /\ Len(Result.block_difficulty_series) = Min(block_count, cs_height)
        /\ Len(Result.tx_difficulty_series) = Min(block_count, cs_height)
        /\ Result.block_time._sample_size = Min(block_count, ba_height) - 1
        /\ (ba_height >= block_count =>
              /\ Len(Result.block_difficulty_series) = block_count
              /\ Result.block_time._sample_size = block_count - 1)

\* A result over a chain shorter than the requested window, which grew
\* between the two passes.
C1_Witness ==
    /\ Returned
    /\ cs_height < block_count
    /\ ba_height < cs_height

\* C2: when get_block_by_height answers absent or with an error for a height
\* of the window, the call ends with an error and without a ChainStats value,
\* and the failed lookup is the last one the provider receives: the height is
\* not skipped and no later height is fetched.
C2_MissingBlockAborts ==
    (last_response # <<>> /\ last_response[1] \in {"none", "err"}) =>
        /\ pc = "done"
        /\ outcome = "err"
        /\ stats = None
        /\ requests[Len(requests)] = <<"get_block_by_height", last_response[2]>>

\* The aggregation loop meets a missing block after it has consumed one.
C2_Witness ==
    /\ last_response # <<>>
    /\ last_response[1] = "none"
    /\ Len(window) >= 1
    /\ last_response[2] = cs_h

\* C3: a call with window_size < 2 ends with an error before the provider
\* receives any call; a call that finds a chain height below 2 ends with an
\* error; and every ChainStats value returned covers at least 2 blocks.
C3_AtLeastTwoBlocks ==
    /\ block_count < 2 =>
          /\ requests = <<>>
          /\ stats = None
          /\ pc = "done" => outcome = "err"
    /\ (pc # "calculate_block_averages" /\ ba_height < 2) =>
          /\ stats = None
          /\ pc = "done" => outcome = "err"
    /\ Returned =>
          /\ block_count >= 2
          /\ Len(Result.block_difficulty_series) >= 2
          /\ Len(Result.tx_difficulty_series) >= 2
          /\ Result.block_time._sample_size >= 1

\* A window of 2 or more was asked of a chain of one block; the call failed
\* though the chain has grown to 2 blocks since.
C3_Witness ==
    /\ pc = "done"
    /\ error = "Not enough blocks"
    /\ block_count >= 2
    /\ ba_height = 1
    /\ chain_height >= 2


\* The zero-input transactions of a block, by position.
CoinbaseAt(block) == {j \in 1..Len(block.transactions) : Len(block.transactions[j].inputs) = 0}
HasCoinbase(block) == CoinbaseAt(block) # {}

\* The receiver of output index 1 of the earliest zero-input transaction.
RewardReceiver(block) ==
    LET j == CHOOSE j \in CoinbaseAt(block) : \A i \in CoinbaseAt(block) : j <= i
    IN  block.transactions[j].outputs[2]

CountOf(map, key) == IF key \in DOMAIN map THEN map[key] ELSE 0

\* C4: after any number of turns of the aggregation loop, the miner table
\* counts, for every identity, the consumed blocks whose earliest zero-input
\* transaction pays that identity at output index 1; a block without a
\* zero-input transaction adds nothing, so the counts sum to the number of
\* consumed blocks that hold a coinbase.
C4_MinerCredit ==
    /\ \A key \in DOMAIN miner_count : miner_count[key] >= 1
    /\ \A key \in Keys :
          CountOf(miner_count, key) =
             Cardinality({i \in 1..Len(window) :
                 HasCoinbase(window[i]) /\ RewardReceiver(window[i]) = key})
    /\ map_total(miner_count) =
          Cardinality({i \in 1..Len(window) : HasCoinbase(window[i])})

\* A consumed block holds two zero-input transactions that pay different
\* identities at output index 1, the first paying yet another at index 0;
\* another consumed block holds no coinbase.
C4_Witness ==
    /\ Len(window) = 2
    /\ \E i \in 1..2 :
          /\ Len(window[i].transactions) = 2
          /\ CoinbaseAt(window[i]) = {1, 2}
          /\ window[i].transactions[1].outputs = <<1, 2>>
          /\ window[i].transactions[2].outputs = <<1, 1>>
          /\ miner_count = (2 :> 1)
    /\ \E i \in 1..2 : ~HasCoinbase(window[i]) /\ Len(window[i].transactions) = 1

\* C5: when every block of the aggregated window holds exactly k
\* transactions, the returned avg_txs_per_block is k.
C5_AverageOfEqualBlocks ==
    (pc = "main" /\ Returned) =>
        \A k \in 0..MaxTxs :
            (\A i \in 1..Len(window) : Len(window[i].transactions) = k) =>
                Result.avg_txs_per_block[1] = k * Result.avg_txs_per_block[2]

\* C10: calculate_chain_stats ends with a ChainStats value or an error value
\* and never aborts; a first zero-input transaction with fewer than 2 outputs
\* causes no out-of-bounds access.
C10_NeverAborts ==
    (pc = "done" /\ stats = None) => outcome = "err"

\* C9: the block-time statistics, the difficulty series and the labels of the
\* chart are over one window: the three height ranges are the same, label i
\* being the height of the block behind entry i of the series.
C9_OneWindow ==
    (pc = "plot" /\ Returned) =>
        /\ ba_start = cs_start /\ ba_height = cs_height
        /\ block_numbers = Range(cs_start, cs_height)

\* C7: for every terminal width plot_difficulties completes, with a column
\* width of (width - 13) / 2 from 13 columns up and of 0 below.
C7_WidthNeverNegative ==
    IsSome(plot) =>
        /\ ~Unwrap(plot).panicked
        /\ Unwrap(plot).bar_max_width =
              IF Unwrap(plot).term_width < 13 THEN 0
              ELSE (Unwrap(plot).term_width - 13) \div 2


Ranked == Unwrap(top_n_result)
RankedKeys == {Ranked[i][1] : i \in 1..Len(Ranked)}

\* C6: top_n(table, 10) returns min(10, number of keys) entries, each a
\* (key, count) pair of the table with count >= 1 and no key twice, in order
\* of non-increasing count, and no key left out has a larger count than a key
\* returned; this for every table the increments can build and every
\* iteration order of the map.
C6_TopTen ==
    IsSome(top_n_result) =>
        /\ Len(Ranked) = Min(10, Cardinality(DOMAIN address_count))
        /\ \A i \in 1..Len(Ranked) :
              /\ Ranked[i][1] \in DOMAIN address_count
              /\ Ranked[i][2] = address_count[Ranked[i][1]]
              /\ Ranked[i][2] >= 1
        /\ \A i, j \in 1..Len(Ranked) :
              /\ i # j => Ranked[i][1] # Ranked[j][1]
              /\ i < j => Ranked[i][2] >= Ranked[j][2]
        /\ \A key \in DOMAIN address_count \ RankedKeys :
              \A i \in 1..Len(Ranked) : address_count[key] <= Ranked[i][2]

\* A table of more than 10 keys is cut to 10 entries of differing counts, the
\* key left out tying with the last entry kept.
C6_Witness ==
    /\ IsSome(top_n_result)
    /\ Cardinality(DOMAIN address_count) > 10
    /\ Len(Ranked) = 10
    /\ Ranked[1][2] > Ranked[10][2]
    /\ \E key \in DOMAIN address_count \ RankedKeys :
          address_count[key] = Ranked[10][2]

\* The provider's log, cut at its get_height calls.
HeightCallAt == {i \in 1..Len(requests) : requests[i] = <<"get_height">>}
HeightCalls == Cardinality(HeightCallAt)
NthHeightCall(n) ==
    CHOOSE i \in HeightCallAt : Cardinality({j \in HeightCallAt : j <= i}) = n
Lookups(n) ==
    LET from == NthHeightCall(n)
        to == IF n < HeightCalls THEN NthHeightCall(n + 1) - 1 ELSE Len(requests)
    IN  [i \in 1..(to - from) |-> requests[from + i][2]]
Consecutive(heights, from) == \A i \in 1..Len(heights) : heights[i] = from + i - 1
LookupAt == {i \in 1..Len(requests) : requests[i][1] = "get_block_by_height"}

====
